---- MODULE Spec2Model ----
(***************************************************************************)
(* rsspp::Parser (conditional fetch, header tracking, document parsing and *)
(* feed format detection) as a state machine.                              *)
(*                                                                         *)
(* Specifications:                                                         *)
(*   SpecHdr   - the header callback folding raw header lines during one   *)
(*               transfer                                                  *)
(*   Spec      - one Parser instance: parse_buffer / parse_file / ~Parser  *)
(*   SpecFetch - parse_url on a caller-shared network handle               *)
(*                                                                         *)
(* PbController (podboat) as a state machine:                              *)
(*   SpecPb    - the limit on parallel downloads                           *)
(*   SpecRun   - PbController::run in several processes on one lock file   *)
(***************************************************************************)
EXTENDS Integers, Sequences, FiniteSets, TLC

VARIABLES
    pc,         \* position of the instance: "idle", "perform" (inside curl_easy_perform), "dead"
    hdrs,       \* HeaderValues of the transfer in progress
    delivered,  \* raw header lines handed to handle_headers during this transfer
    hdr_ret,    \* last value returned by handle_headers
    doc,        \* Parser::doc, the owned tree (NULLDOC when none)
    root_element, \* what xmlDocGetRootElement returned in the last parse
    trees,      \* every tree the XML library created: how often each was released
    lm,         \* Parser::lm
    et,         \* Parser::et
    result,     \* outcome of the last call on the instance
    events,     \* collaborators invoked by the last call, in order
    handle,     \* options set on the caller-shared network handle
    call,       \* arguments of the last parse_url call
    buf,        \* response body accumulated by my_write_data
    cfg,        \* constructor arguments of the instance: to, ua, prx, prxauth, ...
    transport,  \* parse_url's ret, status and infoOk after the last curl_easy_perform
    max_dls,    \* PbController::max_dls
    downloads,  \* PbController::downloads_: the status of each download
    started,    \* the downloads start_downloads last started a thread for
    run,        \* each podboat process: its position in PbController::run and what it did
    lock_file   \* the instance lock: the process holding it (NOPID when nobody does)

vars == <<pc, hdrs, delivered, hdr_ret, doc, root_element, trees, lm, et, result, events,
          handle, call, buf, cfg,
          transport, max_dls, downloads, started, run, lock_file>>

----------------------------------------------------------------------------
(* Bounds of the model *)

MaxLines == 3

MaxParses == 2

MaxFetchParses == 2

MaxFetchLines == 2

MaxChunks == 1

MaxDls == 3

NumDownloads == 3

NumProcs == 2

----------------------------------------------------------------------------
(* std::string operations *)

npos == -1

\* std::string::substr(pos)
Substr(s, pos) == SubSeq(s, pos + 1, Len(s))

\* std::string::substr(pos, n)
SubstrN(s, pos, n) == SubSeq(s, pos + 1, pos + n)

\* std::string::find(key): index of the first occurrence, or npos
Find(s, key) ==
    LET hits == {i \in 0..(Len(s) - Len(key)) : SubstrN(s, i, Len(key)) = key}
    IN  IF hits = {} THEN npos
        ELSE CHOOSE i \in hits : \A j \in hits : i <= j

\* the characters utils::trim removes
IsSpace(c) == c \in {" ", "\t", "\r", "\n"}

RECURSIVE TrimStart(_)
TrimStart(s) ==
    IF Len(s) > 0 /\ IsSpace(SubstrN(s, 0, 1)) THEN TrimStart(Substr(s, 1)) ELSE s

RECURSIVE TrimEnd(_)
TrimEnd(s) ==
    IF Len(s) > 0 /\ IsSpace(SubstrN(s, Len(s) - 1, 1))
    THEN TrimEnd(SubstrN(s, 0, Len(s) - 1))
    ELSE s

\* utils::trim: whitespace and line terminators removed at both ends
trim(s) == TrimEnd(TrimStart(s))

\* curl_getdate: seconds since the epoch, or -1 when the text is no date
curl_getdate(s) ==
    LET d == trim(s)
    IN  IF d = "Sat, 01 Jan 2000 00:00:00 GMT" THEN 946684800
        ELSE IF d = "Sun, 02 Jan 2000 00:00:00 GMT" THEN 946771200
        ELSE -1

----------------------------------------------------------------------------
(* Header State Tracker *)

\* variant of HeaderValues::reset that forgets to clear the etag
HeaderValuesReset_NoEtag(values) ==
    [lastmodified |-> 0, charset |-> "utf-8", etag |-> values.etag]

\* HeaderValues::reset
HeaderValuesReset(values) ==
    [lastmodified |-> 0, charset |-> "utf-8", etag |-> ""]

\* HeaderValues::HeaderValues
HeaderValues == HeaderValuesReset([lastmodified |-> 0, charset |-> "", etag |-> ""])

\* the Content-Type branch of handle_headers
ContentTypeCharset(values, header) ==
    LET key == "charset="
        charset_index == Find(header, key)
    IN  IF charset_index # npos
        THEN LET c0 == trim(Substr(header, charset_index + Len(key)))
                 c1 == IF Len(c0) >= 2 /\ SubstrN(c0, 0, 1) = "\""
                          /\ SubstrN(c0, Len(c0) - 1, 1) = "\""
                       THEN SubstrN(c0, 1, Len(c0) - 2)
                       ELSE c0
             IN  IF Len(c1) > 0 THEN [values EXCEPT !.charset = c1] ELSE values
        ELSE values

\* variant of handle_headers that stores the result of curl_getdate unchecked
handle_headers_StoresFailedDate(values, header) ==
    LET v == IF Find(header, "HTTP/") = 0
             THEN HeaderValuesReset(values)
             ELSE IF Find(header, "Last-Modified:") = 0
             THEN [values EXCEPT !.lastmodified = curl_getdate(Substr(header, 14))]
             ELSE IF Find(header, "ETag:") = 0
             THEN [values EXCEPT !.etag = trim(Substr(header, 5))]
             ELSE IF Find(header, "Content-Type:") = 0
             THEN ContentTypeCharset(values, header)
             ELSE values
    IN  [values |-> v, ret |-> Len(header)]

\* handle_headers: the new HeaderValues and the size reported as consumed
handle_headers(values, header) ==
    LET v == IF Find(header, "HTTP/") = 0
             THEN HeaderValuesReset(values)
             ELSE IF Find(header, "Last-Modified:") = 0
             THEN LET r == curl_getdate(Substr(header, 14))
                  IN  IF r = -1 THEN values
                      ELSE [values EXCEPT !.lastmodified = r]
             ELSE IF Find(header, "ETag:") = 0
             THEN [values EXCEPT !.etag = trim(Substr(header, 5))]
             ELSE IF Find(header, "Content-Type:") = 0
             THEN ContentTypeCharset(values, header)
             ELSE values
    IN  [values |-> v, ret |-> Len(header)]

\* raw header lines a server can send
HeaderLines ==
    { "HTTP/1.1 301 Moved Permanently\r\n",
      "HTTP/1.1 200 OK\r\n",
      "Last-Modified: Sat, 01 Jan 2000 00:00:00 GMT\r\n",
      "Last-Modified: Sun, 02 Jan 2000 00:00:00 GMT\r\n",
      "Last-Modified: yesterday\r\n",
      "ETag: \"abc\"\r\n",
      "ETag: W/\"xyz\"\r\n",
      "Content-Type: text/xml; charset=\"ISO-8859-1\"\r\n",
      "Content-Type: text/xml; charset=koi8-r\r\n",
      "Content-Type: text/xml\r\n",
      "Content-Type: text/xml; charset=\"\"\r\n",
      "Content-Type: text/xml; charset=\r\n",
      "Content-Type: text/xml; charset=; format=flowed\r\n",
      "Content-Type: text/xml; charset=\"ISO-8859-1\"; format=flowed\r\n",
      "etag: \"lower\"\r\n",
      "Location: http://example.com/feed.xml\r\n",
      "\r\n" }

----------------------------------------------------------------------------
(* Header callback during curl_easy_perform *)

\* libcurl hands one raw header line to handle_headers
HandleHeaders(line, limit) ==
    /\ pc = "perform"
    /\ Len(delivered) < limit
    /\ LET r == handle_headers(hdrs, line)
       IN  /\ hdrs' = r.values
           /\ hdr_ret' = r.ret
    /\ delivered' = Append(delivered, line)
    /\ UNCHANGED <<pc, doc, root_element, trees, lm, et, result, events, handle, call,
                   buf, cfg,
                   transport, max_dls, downloads, started,
                   run, lock_file>>

----------------------------------------------------------------------------
(* Feed and the parsed document *)

\* a null pointer (no attribute, no namespace, no encoding)
NULL == "NULL"

\* rsspp_uris.h
ATOM_0_3_URI == "http://purl.org/atom/ns#"

ATOM_1_0_URI == "http://www.w3.org/2005/Atom"

\* Feed::Feed
Feed == [rss_version |-> "UNKNOWN", encoding |-> "", items |-> <<>>]

\* no call has returned yet
NoResult == [kind |-> "none", feed |-> Feed, msg |-> ""]

\* a returned Feed
Return(f) == [kind |-> "feed", feed |-> f, msg |-> ""]

\* throw Exception(msg)
Throw(msg) == [kind |-> "error", feed |-> Feed, msg |-> msg]

\* xmlDocGetRootElement found nothing
NullNode == [null |-> TRUE, name |-> NULL, type |-> NULL, version |-> NULL,
             ns |-> NULL, href |-> NULL]

\* root elements the XML library can hand back
RootNames == {"rss", "RDF", "feed", "opml"}

\* values of the root element's version attribute (NULL: no such attribute)
Versions == {NULL, "0.91", "0.92", "0.94", "2.0", "2", "1.0", "0.3", "9.9"}

\* node->ns and node->ns->href: no namespace, or a namespace with its href
Namespaces ==
    {[ns |-> NULL, href |-> NULL]}
    \cup {[ns |-> "ns", href |-> h] :
            h \in {ATOM_0_3_URI, ATOM_1_0_URI, "http://example.com/ns"}}

\* the version attribute is varied in full where the code reads it (rss, feed),
\* the namespace where the code reads it (feed)
RootNodes ==
    {r \in {[null |-> FALSE, name |-> n, type |-> "XML_ELEMENT_NODE", version |-> v,
              ns |-> s.ns, href |-> s.href] :
                n \in RootNames, v \in Versions, s \in Namespaces} :
        /\ r.name # "feed" => r.href \in {NULL, ATOM_1_0_URI}
        /\ r.name \notin {"rss", "feed"} => r.version \in {NULL, "1.0"}}

\* what RssParser::parse_feed of the selected variant does: it fills the feed,
\* or throws an exception with its own message
FormatParserOutcomes ==
    {[throws |-> FALSE, items |-> <<"item">>, msg |-> ""],
     [throws |-> TRUE, items |-> <<>>, msg |-> "format parser error"]}

\* what xmlReadMemory / xmlReadFile produce: no document, a document without
\* root element, or a document with a root element
XmlOutcomes(roots) ==
    {[kind |-> "nodoc", node |-> NullNode, encoding |-> NULL],
     [kind |-> "noroot", node |-> NullNode, encoding |-> NULL]}
    \cup {[kind |-> "root", node |-> n, encoding |-> e] :
            n \in roots, e \in {NULL, "ISO-8859-1"}}

----------------------------------------------------------------------------
(* Format Detector & Dispatcher *)

\* variant of the "rss" branch that maps version 1.0 to RSS_1_0
DetectRss_Rss10AsRdf(node) ==
    LET version == node.version
        ev == <<<<"xmlGetProp", "version">>>>
    IN  IF version = NULL THEN [err |-> "no RSS version", version |-> "", ev |-> ev]
        ELSE IF version = "0.91" THEN [err |-> "", version |-> "RSS_0_91", ev |-> ev]
        ELSE IF version = "0.92" THEN [err |-> "", version |-> "RSS_0_92", ev |-> ev]
        ELSE IF version = "0.94" THEN [err |-> "", version |-> "RSS_0_94", ev |-> ev]
        ELSE IF version = "2.0" \/ version = "2"
        THEN [err |-> "", version |-> "RSS_2_0", ev |-> ev]
        ELSE IF version = "1.0" THEN [err |-> "", version |-> "RSS_1_0", ev |-> ev]
        ELSE [err |-> "invalid RSS version", version |-> "", ev |-> ev]

\* the "rss" branch of parse_xmlnode
DetectRss(node) ==
    LET version == node.version
        ev == <<<<"xmlGetProp", "version">>>>
    IN  IF version = NULL THEN [err |-> "no RSS version", version |-> "", ev |-> ev]
        ELSE IF version = "0.91" THEN [err |-> "", version |-> "RSS_0_91", ev |-> ev]
        ELSE IF version = "0.92" THEN [err |-> "", version |-> "RSS_0_92", ev |-> ev]
        ELSE IF version = "0.94" THEN [err |-> "", version |-> "RSS_0_94", ev |-> ev]
        ELSE IF version = "2.0" \/ version = "2"
        THEN [err |-> "", version |-> "RSS_2_0", ev |-> ev]
        ELSE IF version = "1.0" THEN [err |-> "", version |-> "RSS_0_91", ev |-> ev]
        ELSE [err |-> "invalid RSS version", version |-> "", ev |-> ev]

\* variant that resolves version 0.3 to ATOM_0_3 instead of ATOM_0_3_NONS
AtomByVersion_Plain03(node) ==
    LET version == node.version
        ev == <<<<"xmlGetProp", "version">>>>
    IN  IF version = NULL
        THEN [err |-> "invalid Atom version", version |-> "", ev |-> ev]
        ELSE IF version = "0.3"
        THEN [err |-> "", version |-> "ATOM_0_3", ev |-> ev]
        ELSE [err |-> "invalid Atom version", version |-> "", ev |-> ev]

\* the "feed" branch of parse_xmlnode for a namespace that is neither Atom URI
AtomByVersion(node) ==
    LET version == node.version
        ev == <<<<"xmlGetProp", "version">>>>
    IN  IF version = NULL
        THEN [err |-> "invalid Atom version", version |-> "", ev |-> ev]
        ELSE IF version = "0.3"
        THEN [err |-> "", version |-> "ATOM_0_3_NONS", ev |-> ev]
        ELSE [err |-> "invalid Atom version", version |-> "", ev |-> ev]

\* variant of the "feed" branch that reads the version attribute before the namespace
DetectAtom_VersionFirst(node) ==
    IF node.version = "0.3" THEN AtomByVersion(node)
    ELSE IF node.ns # NULL /\ node.href # NULL
    THEN IF node.href = ATOM_0_3_URI
         THEN [err |-> "", version |-> "ATOM_0_3", ev |-> <<>>]
         ELSE IF node.href = ATOM_1_0_URI
         THEN [err |-> "", version |-> "ATOM_1_0", ev |-> <<>>]
         ELSE AtomByVersion(node)
    ELSE [err |-> "no Atom version", version |-> "", ev |-> <<>>]

\* variant of the "feed" branch that falls back to the version attribute when
\* the element has no namespace
DetectAtom_NamespaceOptional(node) ==
    IF node.ns # NULL /\ node.href = ATOM_0_3_URI
    THEN [err |-> "", version |-> "ATOM_0_3", ev |-> <<>>]
    ELSE IF node.ns # NULL /\ node.href = ATOM_1_0_URI
    THEN [err |-> "", version |-> "ATOM_1_0", ev |-> <<>>]
    ELSE AtomByVersion(node)

\* the "feed" branch of parse_xmlnode
DetectAtom(node) ==
    IF node.ns # NULL /\ node.href # NULL
    THEN IF node.href = ATOM_0_3_URI
         THEN [err |-> "", version |-> "ATOM_0_3", ev |-> <<>>]
         ELSE IF node.href = ATOM_1_0_URI
         THEN [err |-> "", version |-> "ATOM_1_0", ev |-> <<>>]
         ELSE AtomByVersion(node)
    ELSE [err |-> "no Atom version", version |-> "", ev |-> <<>>]

\* variant of the detector that rejects a root element it does not know
Detect_RejectsUnknownRoot(node) ==
    IF node.name = "rss" THEN DetectRss(node)
    ELSE IF node.name = "RDF" THEN [err |-> "", version |-> "RSS_1_0", ev |-> <<>>]
    ELSE IF node.name = "feed" THEN DetectAtom(node)
    ELSE [err |-> "invalid RSS version", version |-> "", ev |-> <<>>]

\* the dialect chosen from the root element's name
Detect(node) ==
    IF node.name = "rss" THEN DetectRss(node)
    ELSE IF node.name = "RDF" THEN [err |-> "", version |-> "RSS_1_0", ev |-> <<>>]
    ELSE IF node.name = "feed" THEN DetectAtom(node)
    ELSE [err |-> "", version |-> Feed.rss_version, ev |-> <<>>]

\* variant of the dispatcher that selects the Format Parser for the dialect of
\* a fresh Feed, before the detected dialect is taken into account
Dispatch_DefaultDialect(f, fp) ==
    LET ev == <<<<"get_object", Feed.rss_version>>, <<"parse_feed", Feed.rss_version>>>>
    IN  IF fp.throws
        THEN [res |-> Throw(fp.msg), ev |-> ev]
        ELSE [res |-> Return([f EXCEPT !.items = fp.items]), ev |-> ev]

\* RssParserFactory::get_object followed by RssParser::parse_feed; an exception
\* of parse_feed is rethrown as it is
Dispatch(f, fp) ==
    LET ev == <<<<"get_object", f.rss_version>>, <<"parse_feed", f.rss_version>>>>
    IN  IF fp.throws
        THEN [res |-> Throw(fp.msg), ev |-> ev]
        ELSE [res |-> Return([f EXCEPT !.items = fp.items]), ev |-> ev]

\* variant of parse_xmlnode without the branch for a NULL root node
parse_xmlnode_NoNullCheck(node, fp) ==
    IF ~node.null /\ node.name # NULL /\ node.type = "XML_ELEMENT_NODE"
    THEN LET d == Detect(node)
         IN  IF d.err # ""
             THEN [res |-> Throw(d.err), ev |-> d.ev]
             ELSE LET r == Dispatch([Feed EXCEPT !.rss_version = d.version], fp)
                  IN  [res |-> r.res, ev |-> d.ev \o r.ev]
    ELSE [res |-> Return(Feed), ev |-> <<>>]

\* Parser::parse_xmlnode: the outcome and the collaborators it invoked
parse_xmlnode(node, fp) ==
    IF ~node.null
    THEN IF node.name # NULL /\ node.type = "XML_ELEMENT_NODE"
         THEN LET d == Detect(node)
              IN  IF d.err # ""
                  THEN [res |-> Throw(d.err), ev |-> d.ev]
                  ELSE LET r == Dispatch([Feed EXCEPT !.rss_version = d.version], fp)
                       IN  [res |-> r.res, ev |-> d.ev \o r.ev]
         ELSE [res |-> Return(Feed), ev |-> <<>>]
    ELSE [res |-> Throw("XML root node is NULL"), ev |-> <<>>]

----------------------------------------------------------------------------
(* Document Parser *)

\* Parser::Parser: doc(0)
NULLDOC == 0

\* xmlReadMemory / xmlReadFile allocate a tree: its handle, and the heap after
NewTree(ts) == [id |-> Len(ts) + 1, trees |-> Append(ts, 0)]

\* xmlFreeDoc
xmlFreeDoc(ts, d) == [ts EXCEPT ![d] = @ + 1]

\* doc->encoding copied into the Feed
WithEncoding(res, encoding) ==
    IF res.kind = "feed" /\ encoding # NULL
    THEN [res EXCEPT !.feed.encoding = encoding]
    ELSE res

\* Parser::parse_buffer on an instance owning d: the new doc, the heap, the root
\* element, the outcome and the collaborators invoked
parse_buffer(d, ts, xml, fp) ==
    LET ev == <<<<"xmlReadMemory", xml.kind>>>>
    IN  IF xml.kind = "nodoc"
        THEN [doc |-> NULLDOC, trees |-> ts, root |-> NullNode,
              res |-> Throw("could not parse buffer"), ev |-> ev]
        ELSE LET t == NewTree(ts)
                 r == parse_xmlnode(xml.node, fp)
             IN  [doc |-> t.id, trees |-> t.trees, root |-> xml.node,
                  res |-> WithEncoding(r.res, xml.encoding), ev |-> ev \o r.ev]

\* Parser::parse_file
parse_file(d, ts, xml, fp) ==
    LET ev == <<<<"xmlReadFile", xml.kind>>>>
        t == IF xml.kind = "nodoc" THEN [id |-> NULLDOC, trees |-> ts] ELSE NewTree(ts)
    IN  IF xml.node.null
        THEN [doc |-> t.id, trees |-> t.trees, root |-> xml.node,
              res |-> Throw("could not parse file"), ev |-> ev]
        ELSE LET r == parse_xmlnode(xml.node, fp)
             IN  [doc |-> t.id, trees |-> t.trees, root |-> xml.node,
                  res |-> WithEncoding(r.res, xml.encoding), ev |-> ev \o r.ev]

\* a caller invokes parse_buffer on the idle instance
ParseBuffer(roots) ==
    /\ pc = "idle"
    /\ Len(trees) < MaxParses
    /\ \E xml \in XmlOutcomes(roots), fp \in FormatParserOutcomes :
         LET r == parse_buffer(doc, trees, xml, fp)
         IN  /\ doc' = r.doc
             /\ trees' = r.trees
             /\ root_element' = r.root
             /\ result' = r.res
             /\ events' = r.ev
    /\ UNCHANGED <<pc, hdrs, delivered, hdr_ret, lm, et, handle, call, buf, cfg,
                   transport, max_dls, downloads, started,
                   run, lock_file>>

\* a caller invokes parse_file on the idle instance
ParseFile(roots) ==
    /\ pc = "idle"
    /\ Len(trees) < MaxParses
    /\ \E xml \in XmlOutcomes(roots), fp \in FormatParserOutcomes :
         LET r == parse_file(doc, trees, xml, fp)
         IN  /\ doc' = r.doc
             /\ trees' = r.trees
             /\ root_element' = r.root
             /\ result' = r.res
             /\ events' = r.ev
    /\ UNCHANGED <<pc, hdrs, delivered, hdr_ret, lm, et, handle, call, buf, cfg,
                   transport, max_dls, downloads, started,
                   run, lock_file>>

\* Parser::~Parser
Destroy ==
    /\ pc = "idle"
    /\ pc' = "dead"
    /\ trees' = IF doc # NULLDOC THEN xmlFreeDoc(trees, doc) ELSE trees
    /\ UNCHANGED <<hdrs, delivered, hdr_ret, doc, root_element, lm, et, result, events,
                   handle, call, buf, cfg,
                   transport, max_dls, downloads, started,
                   run, lock_file>>

----------------------------------------------------------------------------
(* Conditional Fetcher *)

\* a network handle after curl_easy_init / curl_easy_reset
DefaultHandle ==
    [useragent |-> NULL, url |-> NULL, ssl_verifypeer |-> TRUE,
     followlocation |-> FALSE, maxredirs |-> "default", failonerror |-> FALSE,
     accept_encoding |-> NULL, cookiefile |-> NULL, cookiejar |-> NULL,
     timeout |-> 0, proxy |-> NULL, proxyauth |-> NULL, proxyuserpwd |-> NULL,
     proxytype |-> "CURLPROXY_HTTP", timecondition |-> "CURL_TIMECOND_NONE",
     timevalue |-> 0, httpheader |-> <<>>]

\* constructor arguments: nothing configured, or everything configured
Configs ==
    {[to |-> 0, ua |-> "", prx |-> "", prxauth |-> "", prxtype |-> "CURLPROXY_HTTP",
      verify_ssl |-> TRUE],
     [to |-> 30, ua |-> "newsboat", prx |-> "proxy:8080", prxauth |-> "user:pw",
      prxtype |-> "CURLPROXY_SOCKS5", verify_ssl |-> FALSE]}

\* curl_easy_perform has not returned yet
NoTransport == [ret |-> "none", status |-> 0, infoOk |-> FALSE]

\* no parse_url call was made yet
NoCall == [url |-> "", lastmodified |-> 0, etag |-> "", api |-> FALSE, cookie_cache |-> ""]

\* arguments callers pass to parse_url
Calls ==
    [url : {"http://example.com/feed"}, lastmodified : {0, 946684800},
     etag : {"", "\"abc\""}, api : BOOLEAN, cookie_cache : {"", "cookies.txt"}]

\* RemoteApi::add_custom_headers
add_custom_headers(custom_headers) ==
    Append(custom_headers, "Authorization: GoogleLogin auth=token")

\* parse_url: the options set before the header callback is installed
SetRequestOptions(h, c, url, cookie_cache) ==
    LET h1 == IF c.ua # "" THEN [h EXCEPT !.useragent = c.ua] ELSE h
        h2 == [h1 EXCEPT !.url = url, !.ssl_verifypeer = c.verify_ssl,
                         !.followlocation = TRUE, !.maxredirs = "10",
                         !.failonerror = TRUE, !.accept_encoding = ""]
        h3 == IF cookie_cache # ""
              THEN [h2 EXCEPT !.cookiefile = cookie_cache, !.cookiejar = cookie_cache]
              ELSE h2
        h4 == IF c.to # 0 THEN [h3 EXCEPT !.timeout = c.to] ELSE h3
        h5 == IF c.prx # "" THEN [h4 EXCEPT !.proxy = c.prx] ELSE h4
        h6 == IF c.prxauth # ""
              THEN [h5 EXCEPT !.proxyauth = "CURLAUTH_ANY", !.proxyuserpwd = c.prxauth]
              ELSE h5
    IN  [h6 EXCEPT !.proxytype = c.prxtype]

\* parse_url: the "only if modified since" time condition
TimeCondition(h, lastmodified) ==
    IF lastmodified # 0
    THEN [h EXCEPT !.timecondition = "CURL_TIMECOND_IFMODSINCE",
                   !.timevalue = lastmodified]
    ELSE h

\* variant that sends A-IM only when both validators are present
ConditionalHeaders_AimNeedsBoth(custom_headers, lastmodified, etag) ==
    LET c1 == IF Len(etag) > 0
              THEN Append(custom_headers, "If-None-Match: " \o etag)
              ELSE custom_headers
    IN  IF lastmodified # 0 /\ Len(etag) > 0 THEN Append(c1, "A-IM: feed") ELSE c1

\* parse_url: If-None-Match and A-IM appended to the custom headers
ConditionalHeaders(custom_headers, lastmodified, etag) ==
    LET c1 == IF Len(etag) > 0
              THEN Append(custom_headers, "If-None-Match: " \o etag)
              ELSE custom_headers
    IN  IF lastmodified # 0 \/ Len(etag) > 0 THEN Append(c1, "A-IM: feed") ELSE c1

\* variant of parse_url that clears the custom headers only and skips curl_easy_reset
ResetHandle_NoReset(h, cookie_cache) ==
    IF cookie_cache # ""
    THEN [h EXCEPT !.httpheader = <<>>, !.cookiejar = cookie_cache]
    ELSE [h EXCEPT !.httpheader = <<>>]

\* parse_url: curl_easy_reset, then the cookie jar set again
ResetHandle(h, cookie_cache) ==
    IF cookie_cache # ""
    THEN [DefaultHandle EXCEPT !.cookiejar = cookie_cache]
    ELSE DefaultHandle

\* everything parse_url does to the handle before curl_easy_perform
PrepareHandle(h, c, a) ==
    LET custom0 == IF a.api THEN add_custom_headers(<<>>) ELSE <<>>
        h1 == SetRequestOptions(h, c, a.url, a.cookie_cache)
        h2 == TimeCondition(h1, a.lastmodified)
        custom == ConditionalHeaders(custom0, a.lastmodified, a.etag)
    IN  IF custom # <<>> THEN [h2 EXCEPT !.httpheader = custom] ELSE h2

\* parse_url up to the point where curl_easy_perform starts the transfer; with
\* fresh, the overload that runs on a CurlHandle of its own
ParseUrlBegin ==
    /\ pc = "idle"
    /\ Len(trees) < MaxFetchParses
    /\ \E a \in Calls, fresh \in BOOLEAN :
         /\ call' = a
         /\ handle' = PrepareHandle(IF fresh THEN DefaultHandle ELSE handle, cfg, a)
    /\ pc' = "perform"
    /\ hdrs' = HeaderValues
    /\ delivered' = <<>>
    /\ buf' = ""
    /\ result' = NoResult
    /\ events' = <<>>
    /\ transport' = NoTransport
    /\ UNCHANGED <<hdr_ret, doc, root_element, trees, lm, et, cfg, max_dls, downloads,
                   started,
                   run, lock_file>>

\* my_write_data: libcurl hands over a piece of the response body
WriteData ==
    /\ pc = "perform"
    /\ Len(buf) < MaxChunks * Len("<xml/>")
    /\ buf' = buf \o "<xml/>"
    /\ UNCHANGED <<pc, hdrs, delivered, hdr_ret, doc, root_element, trees, lm, et,
                   result, events, handle, call, cfg, transport, max_dls, downloads, started,
                   run, lock_file>>

\* how curl_easy_perform ends, and what curl_easy_getinfo then reports
TransportOutcomes ==
    [ret : {"CURLE_OK"}, status : {200}, infoOk : {TRUE}]
    \cup [ret : {"CURLE_HTTP_RETURNED_ERROR"}, status : {404}, infoOk : BOOLEAN]
    \cup [ret : {"CURLE_COULDNT_CONNECT"}, status : {0}, infoOk : {TRUE}]
    \cup [ret : {"CURLE_OPERATION_TIMEDOUT"}, status : {200}, infoOk : {TRUE}]

\* curl_easy_strerror
curl_easy_strerror(ret) ==
    IF ret = "CURLE_OK" THEN "No error"
    ELSE IF ret = "CURLE_HTTP_RETURNED_ERROR" THEN "HTTP response code said error"
    ELSE IF ret = "CURLE_COULDNT_CONNECT" THEN "Couldn't connect to server"
    ELSE "Timeout was reached"

\* variant that appends the status to every failure whose status could be read
FailureMessage_AlwaysStatus(t) ==
    IF t.infoOk
    THEN curl_easy_strerror(t.ret) \o " " \o ToString(t.status)
    ELSE curl_easy_strerror(t.ret)

\* parse_url: the message of the exception thrown on transport failure
FailureMessage(t) ==
    IF t.ret = "CURLE_HTTP_RETURNED_ERROR" /\ t.infoOk
    THEN curl_easy_strerror(t.ret) \o " " \o ToString(t.status)
    ELSE curl_easy_strerror(t.ret)

\* variant of parse_url that hands an empty body to parse_buffer as well
FetchOutcome_ParsesEmptyBody(t, body, values, d, ts, xml, fp) ==
    LET perform == <<<<"curl_easy_perform", t.ret>>>>
    IN  IF t.ret # "CURLE_OK"
        THEN [doc |-> d, trees |-> ts, root |-> root_element,
              res |-> Throw(FailureMessage(t)), ev |-> perform]
        ELSE LET r == parse_buffer(d, ts, xml, fp)
             IN  [r EXCEPT !.ev = perform \o <<<<"convert_text", values.charset>>>> \o @]

\* variant of parse_url that treats a failed transfer like an empty response
FetchOutcome_FailureAsEmpty(t, body, values, d, ts, xml, fp) ==
    LET perform == <<<<"curl_easy_perform", t.ret>>>>
    IN  IF t.ret = "CURLE_OK" /\ Len(body) > 0
        THEN LET r == parse_buffer(d, ts, xml, fp)
             IN  [r EXCEPT !.ev = perform \o <<<<"convert_text", values.charset>>>> \o @]
        ELSE [doc |-> d, trees |-> ts, root |-> root_element,
              res |-> Return(Feed), ev |-> perform]

\* parse_url after curl_easy_perform returned: the outcome of the call
FetchOutcome(t, body, values, d, ts, xml, fp) ==
    LET perform == <<<<"curl_easy_perform", t.ret>>>>
    IN  IF t.ret # "CURLE_OK"
        THEN [doc |-> d, trees |-> ts, root |-> root_element,
              res |-> Throw(FailureMessage(t)), ev |-> perform]
        ELSE IF Len(body) > 0
        THEN LET r == parse_buffer(d, ts, xml, fp)
             IN  [r EXCEPT !.ev = perform \o <<<<"convert_text", values.charset>>>> \o @]
        ELSE [doc |-> d, trees |-> ts, root |-> root_element,
              res |-> Return(Feed), ev |-> perform]

\* variant of parse_url that keeps the old validators when the response has none
UpdateValidators_KeepsOld(values, old_lm, old_et) ==
    [lm |-> IF values.lastmodified # 0 THEN values.lastmodified ELSE old_lm,
     et |-> IF values.etag # "" THEN values.etag ELSE old_et]

\* parse_url: lm and et taken from the header values after curl_easy_perform
UpdateValidators(values, old_lm, old_et) ==
    [lm |-> values.lastmodified, et |-> values.etag]

\* what the XML library makes of the body, where parse_url hands it over
ParsedAs(t, body, roots) ==
    IF t.ret = "CURLE_OK" /\ Len(body) > 0
    THEN XmlOutcomes(roots)
    ELSE {CHOOSE x \in XmlOutcomes(roots) : x.kind = "nodoc"}

\* curl_easy_perform returns and parse_url runs to its end
ParseUrlFinish(roots) ==
    /\ pc = "perform"
    /\ \E t \in TransportOutcomes :
         /\ t.ret = "CURLE_COULDNT_CONNECT" => delivered = <<>> /\ buf = ""
         /\ t.ret = "CURLE_HTTP_RETURNED_ERROR" => buf = ""
         /\ \E xml \in ParsedAs(t, buf, roots), fp \in FormatParserOutcomes :
            LET r == FetchOutcome(t, buf, hdrs, doc, trees, xml, fp)
            IN  /\ doc' = r.doc
                /\ trees' = r.trees
                /\ root_element' = r.root
                /\ result' = r.res
                /\ events' = r.ev
                /\ transport' = t
    /\ lm' = UpdateValidators(hdrs, lm, et).lm
    /\ et' = UpdateValidators(hdrs, lm, et).et
    /\ handle' = ResetHandle(handle, call.cookie_cache)
    /\ pc' = "idle"
    /\ hdrs' = HeaderValues
    /\ delivered' = <<>>
    /\ buf' = ""
    /\ UNCHANGED <<hdr_ret, call, cfg, max_dls, downloads, started,
                   run, lock_file>>

----------------------------------------------------------------------------
(* PbController::run under the instance lock *)

\* no process holds the lock file
NOPID == 0

\* a podboat process whose PbController was constructed and whose run has not
\* begun: max_dls(1), cfg(0), ql(0)
NotRun == [pc |-> "start", ret |-> "none", locked |-> "no", cfg_loaded |-> FALSE,
           max_dls |-> 1, reloads |-> 0, view_ran |-> FALSE]

\* what the getopt_long loop makes of the command line: go on, a usage or
\* log-level error, or --help
Options == {"run", "usage", "help"}

\* values of the max-downloads setting
MaxDownloadsSettings == {1, 2}

\* return from run with this exit code
ReturnFromRun(r, code) == [r EXCEPT !.pc = "returned", !.ret = code]

\* FsLock::try_lock: the lock file is taken when nobody holds it; otherwise it
\* fails and reports the holder's pid
try_lock(lock, p) ==
    IF lock = NOPID
    THEN [ok |-> TRUE, lock |-> p, pid |-> p]
    ELSE [ok |-> FALSE, lock |-> lock, pid |-> lock]

\* the getopt_long loop at the beginning of run
ParseOptions(p, o) ==
    /\ run[p].pc = "start"
    /\ run' = [run EXCEPT ![p] =
                  IF o = "usage" THEN ReturnFromRun(@, "EXIT_FAILURE")
                  ELSE IF o = "help" THEN ReturnFromRun(@, "EXIT_SUCCESS")
                  ELSE [@ EXCEPT !.pc = "lock"]]
    /\ UNCHANGED <<pc, hdrs, delivered, hdr_ret, doc, root_element, trees, lm, et,
                   result, events, handle, call, buf, cfg, transport, max_dls,
                   downloads, started, lock_file>>

\* variant of the locking step that goes on to load the configuration even
\* when the lock is held by another process
TryLock_IgnoresHolder(p) ==
    /\ run[p].pc = "lock"
    /\ LET r == try_lock(lock_file, p)
       IN  /\ lock_file' = r.lock
           /\ run' = [run EXCEPT ![p] =
                         [@ EXCEPT !.pc = "config",
                                   !.locked = IF r.ok THEN "held" ELSE "failed"]]
    /\ UNCHANGED <<pc, hdrs, delivered, hdr_ret, doc, root_element, trees, lm, et,
                   result, events, handle, call, buf, cfg, transport, max_dls,
                   downloads, started>>

\* run takes the instance lock, or returns EXIT_FAILURE when it cannot
TryLock(p) ==
    /\ run[p].pc = "lock"
    /\ LET r == try_lock(lock_file, p)
       IN  /\ lock_file' = r.lock
           /\ run' = [run EXCEPT ![p] =
                         IF r.ok
                         THEN [@ EXCEPT !.pc = "config", !.locked = "held"]
                         ELSE ReturnFromRun([@ EXCEPT !.locked = "failed"],
                                            "EXIT_FAILURE")]
    /\ UNCHANGED <<pc, hdrs, delivered, hdr_ret, doc, root_element, trees, lm, et,
                   result, events, handle, call, buf, cfg, transport, max_dls,
                   downloads, started>>

\* run loads the configuration: a ConfigException ends run with EXIT_FAILURE,
\* otherwise max_dls takes the max-downloads setting
LoadConfiguration(p, parsed, setting) ==
    /\ run[p].pc = "config"
    /\ run' = [run EXCEPT ![p] =
                  IF parsed
                  THEN [@ EXCEPT !.pc = "queue", !.cfg_loaded = TRUE,
                                 !.max_dls = setting]
                  ELSE ReturnFromRun([@ EXCEPT !.cfg_loaded = TRUE], "EXIT_FAILURE")]
    /\ UNCHANGED <<pc, hdrs, delivered, hdr_ret, doc, root_element, trees, lm, et,
                   result, events, handle, call, buf, cfg, transport, max_dls,
                   downloads, started, lock_file>>

\* run creates the QueueLoader and loads the queue file
LoadQueue(p) ==
    /\ run[p].pc = "queue"
    /\ run' = [run EXCEPT ![p] = [@ EXCEPT !.pc = "view", !.reloads = @ + 1]]
    /\ UNCHANGED <<pc, hdrs, delivered, hdr_ret, doc, root_element, trees, lm, et,
                   result, events, handle, call, buf, cfg, transport, max_dls,
                   downloads, started, lock_file>>

\* run runs the view until the user leaves it
RunView(p) ==
    /\ run[p].pc = "view"
    /\ run' = [run EXCEPT ![p] = [@ EXCEPT !.pc = "cleanup", !.view_ran = TRUE]]
    /\ UNCHANGED <<pc, hdrs, delivered, hdr_ret, doc, root_element, trees, lm, et,
                   result, events, handle, call, buf, cfg, transport, max_dls,
                   downloads, started, lock_file>>

\* run rewrites the queue file and returns EXIT_SUCCESS
CleanUpQueue(p) ==
    /\ run[p].pc = "cleanup"
    /\ run' = [run EXCEPT ![p] =
                  ReturnFromRun([@ EXCEPT !.reloads = @ + 1], "EXIT_SUCCESS")]
    /\ UNCHANGED <<pc, hdrs, delivered, hdr_ret, doc, root_element, trees, lm, et,
                   result, events, handle, call, buf, cfg, transport, max_dls,
                   downloads, started, lock_file>>

\* the process ends after run returned: the controller and its fslock go away,
\* which gives up the lock if this process held it
Exit(p) ==
    /\ run[p].pc = "returned"
    /\ run' = [run EXCEPT ![p] =
                  [@ EXCEPT !.pc = "exited",
                            !.locked = IF @ = "held" THEN "released" ELSE @]]
    /\ lock_file' = IF lock_file = p THEN NOPID ELSE lock_file
    /\ UNCHANGED <<pc, hdrs, delivered, hdr_ret, doc, root_element, trees, lm, et,
                   result, events, handle, call, buf, cfg, transport, max_dls,
                   downloads, started>>

----------------------------------------------------------------------------
(* Specifications *)

\* Parser::Parser: the instance at position p, before any call completed
InitParser(p, cfgs) ==
    /\ pc = p
    /\ hdrs = HeaderValues
    /\ delivered = <<>>
    /\ hdr_ret = 0
    /\ doc = NULLDOC
    /\ root_element = NullNode
    /\ trees = <<>>
    /\ lm = 0
    /\ et = ""
    /\ result = NoResult
    /\ events = <<>>
    /\ handle = DefaultHandle
    /\ call = NoCall
    /\ buf = ""
    /\ cfg \in cfgs
    /\ transport = NoTransport
    /\ max_dls = 1
    /\ downloads = [i \in 1..NumDownloads |-> "QUEUED"]
    /\ started = {}
    /\ run = [i \in 1..NumProcs |-> NotRun]
    /\ lock_file = NOPID

\* one Parser instance parsing buffers and files until it is destroyed
Init == InitParser("idle", {c \in Configs : c.to = 0})

Next ==
    \/ ParseBuffer(RootNodes)
    \/ ParseFile(RootNodes)
    \/ Destroy

Spec == Init /\ [][Next]_vars

\* root elements of the documents fetched in SpecFetch
FetchRoots ==
    {n \in RootNodes : n.name = "rss" /\ n.version = "2.0" /\ n.ns = NULL}

\* header lines of the responses fetched in SpecFetch
FetchLines ==
    { "HTTP/1.1 200 OK\r\n",
      "Last-Modified: Sat, 01 Jan 2000 00:00:00 GMT\r\n",
      "ETag: \"abc\"\r\n" }

\* one Parser instance fetching URLs on a network handle
InitFetch == InitParser("idle", Configs)

NextFetch ==
    \/ ParseUrlBegin
    \/ \E line \in FetchLines : HandleHeaders(line, MaxFetchLines)
    \/ WriteData
    \/ ParseUrlFinish(FetchRoots)
    \/ Destroy

SpecFetch == InitFetch /\ [][NextFetch]_vars

\* the header callback during one transfer: HeaderValues constructed, callback
\* installed, curl_easy_perform running
InitHdr == InitParser("perform", {c \in Configs : c.to = 0})

NextHdr == \E line \in HeaderLines : HandleHeaders(line, MaxLines)

SpecHdr == InitHdr /\ [][NextHdr]_vars

----------------------------------------------------------------------------
(* PbController: the limit on parallel downloads *)

\* PbController::downloads_in_progress
downloads_in_progress(dls) ==
    Cardinality({i \in DOMAIN dls : dls[i] = "DOWNLOADING"})

\* PbController::get_maxdownloads
get_maxdownloads(max) == max

\* int dl2start = get_maxdownloads() - downloads_in_progress(): the unsigned
\* difference wraps modulo 2^32 and its conversion to int gives back the signed
\* difference, negative when more downloads are in progress than the limit
InitialDl2start(max, dls) == get_maxdownloads(max) - downloads_in_progress(dls)

\* the loop of start_downloads from download i on: the downloads a thread is
\* started for
RECURSIVE StartLoop(_, _, _)
StartLoop(dls, i, dl2start) ==
    IF i > Len(dls) THEN {}
    ELSE IF dl2start = 0 THEN {}
    ELSE IF dls[i] = "QUEUED"
    THEN {i} \cup StartLoop(dls, i + 1, dl2start - 1)
    ELSE StartLoop(dls, i + 1, dl2start)

\* PbController::start_downloads
StartDownloads ==
    /\ started' = StartLoop(downloads, 1, InitialDl2start(max_dls, downloads))
    /\ UNCHANGED <<pc, hdrs, delivered, hdr_ret, doc, root_element, trees, lm, et,
                   result, events, handle, call, buf, cfg, transport, max_dls,
                   downloads,
                   run, lock_file>>

\* PbController::increase_parallel_downloads
IncreaseParallelDownloads ==
    /\ max_dls < MaxDls
    /\ max_dls' = max_dls + 1
    /\ UNCHANGED <<pc, hdrs, delivered, hdr_ret, doc, root_element, trees, lm, et,
                   result, events, handle, call, buf, cfg, transport, downloads,
                   started,
                   run, lock_file>>

\* PbController::decrease_parallel_downloads
DecreaseParallelDownloads ==
    /\ max_dls' = IF max_dls > 1 THEN max_dls - 1 ELSE max_dls
    /\ UNCHANGED <<pc, hdrs, delivered, hdr_ret, doc, root_element, trees, lm, et,
                   result, events, handle, call, buf, cfg, transport, downloads,
                   started,
                   run, lock_file>>

\* the detached thread started for a download begins the transfer
ThreadBegins(i) ==
    /\ i \in started
    /\ downloads[i] = "QUEUED"
    /\ downloads' = [downloads EXCEPT ![i] = "DOWNLOADING"]
    /\ UNCHANGED <<pc, hdrs, delivered, hdr_ret, doc, root_element, trees, lm, et,
                   result, events, handle, call, buf, cfg, transport, max_dls,
                   started,
                   run, lock_file>>

\* the thread of a download in progress ends the transfer; the controller
\* treats the download as neither QUEUED nor DOWNLOADING from then on
ThreadEnds(i) ==
    /\ downloads[i] = "DOWNLOADING"
    /\ downloads' = [downloads EXCEPT ![i] = "FINISHED"]
    /\ UNCHANGED <<pc, hdrs, delivered, hdr_ret, doc, root_element, trees, lm, et,
                   result, events, handle, call, buf, cfg, transport, max_dls,
                   started,
                   run, lock_file>>

\* PbController::PbController: max_dls(1), and the queue as loaded
InitPb == InitParser("idle", {c \in Configs : c.to = 0})

NextPb ==
    \/ StartDownloads
    \/ IncreaseParallelDownloads
    \/ DecreaseParallelDownloads
    \/ \E i \in 1..NumDownloads : ThreadBegins(i)
    \/ \E i \in 1..NumDownloads : ThreadEnds(i)

SpecPb == InitPb /\ [][NextPb]_vars

\* several podboat processes started on one lock file
InitRun == InitParser("idle", {c \in Configs : c.to = 0})

NextRun ==
    \E p \in 1..NumProcs :
        \/ \E o \in Options : ParseOptions(p, o)
        \/ TryLock(p)
        \/ \E parsed \in BOOLEAN, setting \in MaxDownloadsSettings :
               LoadConfiguration(p, parsed, setting)
        \/ LoadQueue(p)
        \/ RunView(p)
        \/ CleanUpQueue(p)
        \/ Exit(p)

SpecRun == InitRun /\ [][NextRun]_vars

----------------------------------------------------------------------------
(* Vocabulary of the properties *)

\* the error taxonomy: which kind of error an exception message stands for
ErrorKind(msg) ==
    IF msg \in {"no RSS version", "no Atom version"} THEN "NoVersionError"
    ELSE IF msg \in {"invalid RSS version", "invalid Atom version"}
    THEN "InvalidVersionError"
    ELSE IF msg \in {"could not parse buffer", "could not parse file",
                     "XML root node is NULL"}
    THEN "ParseError"
    ELSE IF msg = "format parser error" THEN "FormatParserError"
    ELSE "TransportError"

\* the text begins with the prefix
StartsWith(s, prefix) == Len(s) >= Len(prefix) /\ SubSeq(s, 1, Len(prefix)) = prefix

\* a response status line
IsStatusLine(line) == Len(line) >= 5 /\ SubSeq(line, 1, 5) = "HTTP/"

\* the lines after the last status line of a sequence of header lines
RECURSIVE AfterLastStatus(_)
AfterLastStatus(lines) ==
    IF lines = <<>> THEN <<>>
    ELSE IF \E i \in 2..Len(lines) : IsStatusLine(lines[i])
    THEN AfterLastStatus(Tail(lines))
    ELSE IF IsStatusLine(Head(lines)) THEN Tail(lines)
    ELSE lines

\* the header callback applied to each line in turn
RECURSIVE FoldHeaders(_, _)
FoldHeaders(values, lines) ==
    IF lines = <<>> THEN values
    ELSE FoldHeaders(handle_headers(values, Head(lines)).values, Tail(lines))

\* the collaborators of one kind the last call invoked
Invoked(op) == {i \in 1..Len(events) : events[i][1] = op}

\* the dialects for which the last call selected a Format Parser
Dispatched == {events[i][2] : i \in Invoked("get_object")}

\* the last call ended in detection: it saw this root element
Detected == result.kind # "none" /\ ~root_element.null

\* the last call failed with this kind of error, before any Format Parser was selected
FailedDetection(kind) ==
    /\ result.kind = "error"
    /\ ErrorKind(result.msg) = kind
    /\ Dispatched = {}
    /\ Invoked("parse_feed") = {}

\* the last call resolved this dialect and handed the feed to its Format Parser
Resolved(dialect) ==
    /\ Dispatched = {dialect}
    /\ result.kind = "feed" => result.feed.rss_version = dialect
    /\ result.kind = "error" => ErrorKind(result.msg) = "FormatParserError"

\* trees the XML library created and nobody released
Unreleased == {t \in 1..Len(trees) : trees[t] = 0}

\* the headers of the request curl_easy_perform sends
RequestHeaders == {handle.httpheader[i] : i \in 1..Len(handle.httpheader)}

----------------------------------------------------------------------------
(* Properties *)

\* C1 (SpecHdr): at every point of a transfer the Header State is what the
\* lines after the last status line produce from the defaults (0, "", "utf-8");
\* nothing of an earlier header block survives, and right after a status line
\* all three fields are at their defaults.
C1_OnlyLastBlockSurvives ==
    /\ hdrs = FoldHeaders([lastmodified |-> 0, etag |-> "", charset |-> "utf-8"],
                          AfterLastStatus(delivered))
    /\ (delivered # <<>> /\ IsStatusLine(delivered[Len(delivered)]))
         => hdrs = [lastmodified |-> 0, etag |-> "", charset |-> "utf-8"]

\* a redirect: the first block carried an ETag, the second block none
C1_Witness ==
    /\ Len(delivered) = 3
    /\ IsStatusLine(delivered[1])
    /\ delivered[2] = "ETag: \"abc\"\r\n"
    /\ IsStatusLine(delivered[3])
    /\ hdrs.etag = ""

\* C2 (Spec), as claimed: the instance owns at most one Tree at a time, no Tree
\* is released twice, the only unreleased Tree is the one doc points to, and
\* after destruction every Tree has been released exactly once.
C2_OneTreeReleasedOnce ==
    /\ \A t \in 1..Len(trees) : trees[t] <= 1
    /\ Cardinality(Unreleased) <= 1
    /\ Unreleased \subseteq {doc}
    /\ pc = "dead" => Unreleased = {}

\* C3 (SpecFetch): when curl_easy_perform succeeds with an empty body, parse_url
\* returns an empty Feed (no items, dialect UNKNOWN) and invokes neither
\* convert_text nor parse_buffer: no tree is created and doc is left alone.
C3_EmptyBodyEmptyFeed ==
    [][(/\ pc = "perform"
        /\ pc' = "idle"
        /\ buf = ""
        /\ events'[1] = <<"curl_easy_perform", "CURLE_OK">>)
       => (/\ result' = Return([rss_version |-> "UNKNOWN", encoding |-> "",
                                items |-> <<>>])
           /\ Len(events') = 1
           /\ trees' = trees
           /\ doc' = doc)]_vars

\* a fetch that succeeded with an empty body has returned
C3_Witness ==
    /\ pc = "idle"
    /\ events = <<<<"curl_easy_perform", "CURLE_OK">>>>
    /\ result.kind = "feed"
    /\ result.feed.items = <<>>

\* the detection table of a root element named "rss"
RssTable(v) ==
    CASE v = "0.91" -> "RSS_0_91"
      [] v = "0.92" -> "RSS_0_92"
      [] v = "0.94" -> "RSS_0_94"
      [] v \in {"2.0", "2"} -> "RSS_2_0"
      [] v = "1.0" -> "RSS_0_91"
      [] OTHER -> "none"

\* C4 (Spec): for a root element "rss" the dialect is the table's (0.91, 0.92,
\* 0.94, 2.0 or 2, and 1.0 mapped to RSS_0_91); a missing version attribute fails
\* with NoVersionError and any other version with InvalidVersionError.
C4_RssTable ==
    (Detected /\ root_element.name = "rss") =>
        IF root_element.version = NULL THEN FailedDetection("NoVersionError")
        ELSE IF RssTable(root_element.version) # "none"
        THEN Resolved(RssTable(root_element.version))
        ELSE FailedDetection("InvalidVersionError")

\* <rss version="1.0"> came out as RSS_0_91
C4_Witness ==
    /\ Detected
    /\ root_element.name = "rss"
    /\ root_element.version = "1.0"
    /\ result.kind = "feed"
    /\ result.feed.rss_version = "RSS_0_91"

\* C5 (Spec): a root element "feed" in the Atom 1.0 (Atom 0.3) namespace is
\* ATOM_1_0 (ATOM_0_3) whatever its version attribute, which is never read.
C5_AtomNamespaceFirst ==
    (Detected /\ root_element.name = "feed" /\ root_element.ns # NULL) =>
        /\ root_element.href = ATOM_1_0_URI
             => Resolved("ATOM_1_0") /\ Invoked("xmlGetProp") = {}
        /\ root_element.href = ATOM_0_3_URI
             => Resolved("ATOM_0_3") /\ Invoked("xmlGetProp") = {}

\* <feed xmlns="http://www.w3.org/2005/Atom" version="0.3"> came out as ATOM_1_0
C5_Witness ==
    /\ Detected
    /\ root_element.name = "feed"
    /\ root_element.href = ATOM_1_0_URI
    /\ root_element.version = "0.3"
    /\ result.kind = "feed"
    /\ result.feed.rss_version = "ATOM_1_0"

\* C6 (Spec), as claimed: a root element "feed" without namespace and with
\* version="0.3" is resolved to ATOM_0_3_NONS and its Format Parser is invoked.
C6_NoNamespaceVersion03 ==
    (/\ Detected
     /\ root_element.name = "feed"
     /\ root_element.ns = NULL
     /\ root_element.version = "0.3")
        => Resolved("ATOM_0_3_NONS") /\ Invoked("parse_feed") # {}

\* C6 (Spec), amended: a root element "feed" whose namespace is present but is
\* neither Atom URI, and whose version is "0.3", is resolved to ATOM_0_3_NONS
\* and the ATOM_0_3_NONS Format Parser is invoked.
C6_OtherNamespaceVersion03 ==
    (/\ Detected
     /\ root_element.name = "feed"
     /\ root_element.ns # NULL
     /\ root_element.href \notin {ATOM_0_3_URI, ATOM_1_0_URI}
     /\ root_element.version = "0.3")
        => Resolved("ATOM_0_3_NONS") /\ Invoked("parse_feed") # {}

\* <feed xmlns="http://example.com/ns" version="0.3"> came out as ATOM_0_3_NONS
C6_Witness ==
    /\ Detected
    /\ root_element.name = "feed"
    /\ root_element.href = "http://example.com/ns"
    /\ root_element.version = "0.3"
    /\ result.kind = "feed"
    /\ result.feed.rss_version = "ATOM_0_3_NONS"

\* C7 (Spec): a root element "feed" without any namespace fails with
\* NoVersionError, whatever its version attribute, and no Format Parser is
\* selected or invoked.
C7_NoNamespaceNoVersionError ==
    (Detected /\ root_element.name = "feed" /\ root_element.ns = NULL)
        => FailedDetection("NoVersionError")

\* <feed version="0.3"> failed with "no Atom version"
C7_Witness ==
    /\ Detected
    /\ root_element.name = "feed"
    /\ root_element.ns = NULL
    /\ root_element.version = "0.3"
    /\ result = Throw("no Atom version")

\* C8 (Spec), as claimed: a root element "feed" in a namespace that is neither
\* Atom URI fails with NoVersionError when the version attribute is missing and
\* with InvalidVersionError when it is present and not "0.3".
C8_UnrecognizedNamespaceTaxonomy ==
    (/\ Detected
     /\ root_element.name = "feed"
     /\ root_element.ns # NULL
     /\ root_element.href \notin {ATOM_0_3_URI, ATOM_1_0_URI})
        => /\ root_element.version = NULL => FailedDetection("NoVersionError")
           /\ root_element.version \notin {NULL, "0.3"}
                => FailedDetection("InvalidVersionError")

\* C9 (Spec): a document without root element makes parse_buffer fail with "XML
\* root node is NULL" and parse_file (also when no document could be read) with
\* "could not parse file": a ParseError raised before the version attribute is
\* read or a Format Parser selected.
C9_RootMissing ==
    /\ (events # <<>> /\ events[1] = <<"xmlReadMemory", "noroot">>)
         => /\ result = Throw("XML root node is NULL")
            /\ ErrorKind(result.msg) = "ParseError"
            /\ Len(events) = 1
    /\ (events # <<>> /\ events[1] \in {<<"xmlReadFile", "noroot">>,
                                        <<"xmlReadFile", "nodoc">>})
         => /\ result = Throw("could not parse file")
            /\ ErrorKind(result.msg) = "ParseError"
            /\ Len(events) = 1

\* parse_buffer got a document without root element and failed
C9_Witness ==
    /\ events = <<<<"xmlReadMemory", "noroot">>>>
    /\ result.kind = "error"
    /\ doc # NULLDOC

\* C10 (SpecFetch): the request curl_easy_perform sends carries the time
\* condition "if modified since" (with the supplied time) iff last_modified is
\* not 0, the header If-None-Match (with the supplied etag) iff etag is not
\* empty, and the header A-IM: feed iff one of the two validators is present.
C10_ConditionalRequest ==
    pc = "perform" =>
        /\ handle.timecondition = "CURL_TIMECOND_IFMODSINCE" <=> call.lastmodified # 0
        /\ call.lastmodified # 0 => handle.timevalue = call.lastmodified
        /\ (\E h \in RequestHeaders : Len(h) >= 14 /\ SubSeq(h, 1, 14) = "If-None-Match:")
             <=> call.etag # ""
        /\ call.etag # "" => ("If-None-Match: " \o call.etag) \in RequestHeaders
        /\ "A-IM: feed" \in RequestHeaders
             <=> (call.lastmodified # 0 \/ call.etag # "")

\* a request with a time condition only: A-IM sent, If-None-Match not
C10_Witness ==
    /\ pc = "perform"
    /\ call.lastmodified # 0
    /\ call.etag = ""
    /\ handle.timecondition = "CURL_TIMECOND_IFMODSINCE"
    /\ "A-IM: feed" \in RequestHeaders
    /\ lm # 0

\* C11 (SpecFetch): after every parse_url call, whatever its outcome, every
\* option of the handle is at its default except the cookie jar, which is this
\* call's cookie_cache iff that is not empty; and the request of a call carries,
\* the cookie jar aside, only what this call and the instance's configuration
\* set on a handle at its defaults.
C11_HandleResetAfterCall ==
    /\ (pc = "idle" /\ result.kind # "none") =>
          handle = [DefaultHandle EXCEPT
                      !.cookiejar = IF call.cookie_cache # ""
                                    THEN call.cookie_cache ELSE NULL]
    /\ pc = "perform" =>
          /\ handle.url = call.url
          /\ handle.timeout = cfg.to
          /\ handle.proxy = (IF cfg.prx # "" THEN cfg.prx ELSE NULL)
          /\ handle.timevalue = call.lastmodified
          /\ \A h \in RequestHeaders :
                h \in {"Authorization: GoogleLogin auth=token",
                       "If-None-Match: " \o call.etag, "A-IM: feed"}
          /\ handle.cookiefile = (IF call.cookie_cache # ""
                                  THEN call.cookie_cache ELSE NULL)

\* a call with validators and a cookie jar failed: only the cookie jar is left
C11_Witness ==
    /\ pc = "idle"
    /\ result.kind = "error"
    /\ call.etag # ""
    /\ call.lastmodified # 0
    /\ call.cookie_cache = "cookies.txt"
    /\ handle.cookiejar = "cookies.txt"
    /\ handle.url = NULL
    /\ handle.httpheader = <<>>

\* C12 (SpecFetch): parse_url calls curl_easy_perform exactly once; when it
\* fails the call ends with a transport error at once: convert_text and
\* parse_buffer are not invoked and no Feed is returned.
C12_OneRequestFailsFast ==
    (pc = "idle" /\ result.kind # "none") =>
        /\ Cardinality(Invoked("curl_easy_perform")) = 1
        /\ events[1] = <<"curl_easy_perform", transport.ret>>
        /\ transport.ret # "CURLE_OK" =>
              /\ result.kind = "error"
              /\ ErrorKind(result.msg) = "TransportError"
              /\ Len(events) = 1

\* a transfer that had delivered headers timed out and the call failed
C12_Witness ==
    /\ pc = "idle"
    /\ transport.ret = "CURLE_OPERATION_TIMEDOUT"
    /\ result.kind = "error"
    /\ events = <<<<"curl_easy_perform", "CURLE_OPERATION_TIMEDOUT">>>>
    /\ lm # 0

\* C13 (SpecFetch): when parse_url ends, whatever the outcome, lm and et are the
\* Header State folded from the lines after the last status line of this call:
\* 0 and empty when that block had no Last-Modified / ETag line, whatever the
\* caller supplied and whatever an earlier call left.
C13_ValidatorsFromFinalResponse ==
    [][(pc = "perform" /\ pc' = "idle") =>
        LET final == FoldHeaders([lastmodified |-> 0, etag |-> "", charset |-> "utf-8"],
                                 AfterLastStatus(delivered))
            block == AfterLastStatus(delivered)
        IN  /\ lm' = final.lastmodified
            /\ et' = final.etag
            /\ (\A i \in 1..Len(block) : ~StartsWith(block[i], "ETag:")) => et' = ""
            /\ (\A i \in 1..Len(block) : ~StartsWith(block[i], "Last-Modified:"))
                 => lm' = 0]_vars

\* a call that supplied both validators ended with neither header in the response
C13_Witness ==
    /\ pc = "idle"
    /\ result.kind # "none"
    /\ call.etag # ""
    /\ call.lastmodified # 0
    /\ lm = 0
    /\ et = ""
    /\ doc # NULLDOC

\* C14 (SpecFetch): on transport failure the message is the transport-error
\* description followed by the HTTP status exactly when curl_easy_perform
\* returned CURLE_HTTP_RETURNED_ERROR and the status could be read; otherwise
\* it is the description alone.
C14_FailureMessage ==
    (pc = "idle" /\ result.kind # "none" /\ transport.ret # "CURLE_OK") =>
        LET description ==
                CASE transport.ret = "CURLE_HTTP_RETURNED_ERROR"
                       -> "HTTP response code said error"
                  [] transport.ret = "CURLE_COULDNT_CONNECT"
                       -> "Couldn't connect to server"
                  [] transport.ret = "CURLE_OPERATION_TIMEDOUT"
                       -> "Timeout was reached"
        IN  IF transport.ret = "CURLE_HTTP_RETURNED_ERROR" /\ transport.infoOk
            THEN result = Throw(description \o " " \o ToString(transport.status))
            ELSE result = Throw(description)

\* a 404 whose status could be read
C14_Witness ==
    /\ pc = "idle"
    /\ transport = [ret |-> "CURLE_HTTP_RETURNED_ERROR", status |-> 404, infoOk |-> TRUE]
    /\ result = Throw("HTTP response code said error 404")

\* a Content-Type header line
IsContentType(line) == StartsWith(line, "Content-Type:")

\* the text of the charset parameter of a header line: what stands between
\* "charset=" and the next ";" or the end of the line, without the surrounding
\* whitespace and line terminator; empty when the line has no such parameter
CharsetText(line) ==
    LET i == Find(line, "charset=")
    IN  IF i = npos THEN ""
        ELSE LET rest == Substr(line, i + 8)
                 j == Find(rest, ";")
             IN  trim(IF j = npos THEN rest ELSE SubstrN(rest, 0, j))

\* the text is enclosed in a pair of double quotes
IsQuoted(s) ==
    Len(s) >= 2 /\ SubstrN(s, 0, 1) = "\"" /\ SubstrN(s, Len(s) - 1, 1) = "\""

\* the value of the charset parameter of a header line, quotes removed
CharsetParam(line) ==
    LET t == CharsetText(line)
    IN  IF IsQuoted(t) THEN SubstrN(t, 1, Len(t) - 2) ELSE t

\* C15 (SpecHdr), as claimed: the charset of the Header State is never empty; it
\* is "utf-8" unless a Content-Type line with a non-empty charset value was seen
\* since the last status line; and a Content-Type line without a charset
\* parameter, with an empty value or with an empty quoted value leaves the
\* charset as the lines before it left it.
C15_CharsetDefaultsToUtf8 ==
    LET block == AfterLastStatus(delivered)
        defaults == [lastmodified |-> 0, etag |-> "", charset |-> "utf-8"]
    IN  /\ hdrs.charset # ""
        /\ hdrs.charset # "utf-8" =>
             \E i \in 1..Len(block) :
                 IsContentType(block[i]) /\ CharsetParam(block[i]) # ""
        /\ (block # <<>> /\ IsContentType(block[Len(block)])
              /\ CharsetParam(block[Len(block)]) = "")
             => hdrs.charset
                  = FoldHeaders(defaults, SubSeq(block, 1, Len(block) - 1)).charset

\* C16 (SpecHdr), as claimed: right after a Content-Type line whose charset value
\* is enclosed in double quotes the charset is that value without the quotes,
\* and after one with an unquoted value it is the trimmed value.
C16_QuotedCharsetStripped ==
    (delivered # <<>> /\ IsContentType(delivered[Len(delivered)])
       /\ CharsetParam(delivered[Len(delivered)]) # "")
      => hdrs.charset = CharsetParam(delivered[Len(delivered)])

\* C19 (SpecHdr): every header line is reported as consumed in full; a line that
\* is no status, Last-Modified, ETag or Content-Type line changes nothing; a
\* Last-Modified line whose date curl_getdate rejects leaves last_modified as it
\* was; a Last-Modified, ETag or Content-Type line leaves the other two fields
\* as they were.
C19_HeaderLinesNeverFatal ==
    [][Len(delivered') = Len(delivered) + 1 =>
        LET line == delivered'[Len(delivered')]
        IN  /\ hdr_ret' = Len(line)
            /\ (~StartsWith(line, "HTTP/") /\ ~StartsWith(line, "Last-Modified:")
                  /\ ~StartsWith(line, "ETag:") /\ ~StartsWith(line, "Content-Type:"))
                 => hdrs' = hdrs
            /\ (StartsWith(line, "Last-Modified:") /\ curl_getdate(Substr(line, 14)) = -1)
                 => hdrs' = hdrs
            /\ StartsWith(line, "Last-Modified:")
                 => hdrs'.etag = hdrs.etag /\ hdrs'.charset = hdrs.charset
            /\ StartsWith(line, "ETag:")
                 => hdrs'.lastmodified = hdrs.lastmodified /\ hdrs'.charset = hdrs.charset
            /\ StartsWith(line, "Content-Type:")
                 => hdrs'.lastmodified = hdrs.lastmodified /\ hdrs'.etag = hdrs.etag]_vars

\* an unparsable Last-Modified line came after a good one, then an unrelated line
C19_Witness ==
    /\ delivered = << "Last-Modified: Sat, 01 Jan 2000 00:00:00 GMT\r\n",
                      "Last-Modified: yesterday\r\n",
                      "Location: http://example.com/feed.xml\r\n" >>
    /\ hdrs.lastmodified = 946684800
    /\ hdr_ret = 39

\* C17 (Spec): a parse that fails in detection (no version, invalid version,
\* no document or root) selects and invokes no Format Parser; every other parse
\* selects one variant and then invokes it once, both for the dialect detected
\* from the root element, which is the dialect of the Feed returned.
C17_DialectBeforeDispatch ==
    (pc = "idle" /\ result.kind # "none") =>
        IF result.kind = "error"
             /\ ErrorKind(result.msg)
                  \in {"NoVersionError", "InvalidVersionError", "ParseError"}
        THEN Invoked("get_object") = {} /\ Invoked("parse_feed") = {}
        ELSE /\ Cardinality(Invoked("get_object")) = 1
             /\ Cardinality(Invoked("parse_feed")) = 1
             /\ \A g \in Invoked("get_object"), p \in Invoked("parse_feed") :
                    /\ g < p
                    /\ events[g][2] = Detect(root_element).version
                    /\ events[p][2] = events[g][2]
                    /\ result.kind = "feed" => result.feed.rss_version = events[g][2]

\* an Atom 1.0 document was handed to the Atom 1.0 Format Parser, which filled it
C17_Witness ==
    /\ pc = "idle"
    /\ root_element.name = "feed"
    /\ result.kind = "feed"
    /\ result.feed.rss_version = "ATOM_1_0"
    /\ result.feed.items # <<>>
    /\ events[Len(events)] = <<"parse_feed", "ATOM_1_0">>

\* C18 (Spec): for a root element named neither rss, RDF nor feed the detector
\* reads nothing and raises nothing; the Format Parser for UNKNOWN is selected
\* and invoked, and what it throws reaches the caller with its own message.
C18_UnknownRootDeferred ==
    (pc = "idle" /\ result.kind # "none" /\ ~root_element.null
       /\ root_element.name \notin {"rss", "RDF", "feed"}) =>
        /\ Invoked("xmlGetProp") = {}
        /\ Dispatched = {"UNKNOWN"}
        /\ {events[i][2] : i \in Invoked("parse_feed")} = {"UNKNOWN"}
        /\ result.kind = "feed" => result.feed.rss_version = "UNKNOWN"
        /\ result.kind = "error" =>
             \E fp \in FormatParserOutcomes : fp.throws /\ result = Throw(fp.msg)

\* an OPML document went to the Format Parser for UNKNOWN, which rejected it
C18_Witness ==
    /\ pc = "idle"
    /\ root_element.name = "opml"
    /\ result.kind = "error"
    /\ ErrorKind(result.msg) = "FormatParserError"
    /\ Dispatched = {"UNKNOWN"}

\* C20 (SpecPb), as claimed: one call of start_downloads starts at most
\* max(0, max_dls - downloads in progress) threads, each for a QUEUED download,
\* and none when the downloads in progress have reached max_dls.
C20_StartsWithinLimit ==
    [][started' # started =>
        LET in_progress == Cardinality({i \in 1..NumDownloads :
                                           downloads[i] = "DOWNLOADING"})
            room == IF max_dls > in_progress THEN max_dls - in_progress ELSE 0
        IN  /\ Cardinality(started') <= room
            /\ \A i \in started' : downloads[i] = "QUEUED"
            /\ in_progress >= max_dls => started' = {}]_vars

\* the process is inside the part of run that follows the lock: loading the
\* configuration, loading or rewriting the queue, or running the view
PastLock(p) == run[p].pc \in {"config", "queue", "view", "cleanup"}

\* the process was refused the lock and did nothing of what follows it
RefusedCleanly(p) ==
    /\ run[p].pc \in {"returned", "exited"}
    /\ run[p].ret = "EXIT_FAILURE"
    /\ ~run[p].cfg_loaded
    /\ run[p].reloads = 0
    /\ ~run[p].view_ran

\* C21 (SpecRun), as claimed: a process is past the lock only while it holds the
\* lock file, a process that was refused the lock returned EXIT_FAILURE without
\* loading the configuration or touching the queue, and of the processes
\* started on one lock file at most one ever reaches queue loading.
C21_AtMostOneEverLoadsQueue ==
    /\ \A p \in 1..NumProcs : PastLock(p) => lock_file = p
    /\ \A p \in 1..NumProcs : run[p].locked = "failed" => RefusedCleanly(p)
    /\ Cardinality({p \in 1..NumProcs : run[p].reloads > 0}) <= 1

\* C21 (SpecRun), amended: a process is past the lock only while it holds the
\* lock file, a process that was refused the lock returned EXIT_FAILURE without
\* loading the configuration or touching the queue, and at most one process at
\* a time holds the lock; whoever loaded the configuration, touched the queue
\* or ran the view had taken the lock before.
C21_OneProcessAtATime ==
    /\ \A p \in 1..NumProcs : PastLock(p) => lock_file = p
    /\ \A p \in 1..NumProcs : run[p].locked = "failed" => RefusedCleanly(p)
    /\ Cardinality({p \in 1..NumProcs : run[p].locked = "held"}) <= 1
    /\ \A p \in 1..NumProcs : run[p].locked = "held" <=> lock_file = p
    /\ \A p \in 1..NumProcs :
           (run[p].cfg_loaded \/ run[p].reloads > 0 \/ run[p].view_ran)
             => run[p].locked \in {"held", "released"}

\* one process runs the view with the queue loaded while another was refused
\* the lock and returned
C21_Witness ==
    \E p, q \in 1..NumProcs :
        /\ p # q
        /\ run[p].pc = "view"
        /\ run[p].reloads = 1
        /\ lock_file = p
        /\ run[q].locked = "failed"
        /\ run[q].pc = "returned"
        /\ run[q].ret = "EXIT_FAILURE"

====
